---- MODULE Spec2Model ----
(***************************************************************************)
(* A model of the two command-line scripts of googleDriveUploadScript:     *)
(*   gdrive_upload.py           (the Uploader)                             *)
(*   gdrive_get_credentials.py  (the Credential Bootstrapper)              *)
(* One behaviour is one invocation of one script.  The library (PyDrive,   *)
(* oauth2client, googleapiclient) is the environment: each call into it is *)
(* appended to `calls` and its result (a value or a raised error) is       *)
(* chosen nondeterministically from small sets.                            *)
(***************************************************************************)
EXTENDS Integers, Sequences, FiniteSets, TLC

VARIABLES
    program,           \* which script this invocation runs
    args,              \* the argparse namespace
    pc,                \* position in the script
    gauth,             \* the GoogleAuth object: credentials and how it was authorized
    file_list,         \* get_folder_id_by_name: the listing
    list_error,        \* the error the listing call raised, if any
    parent_folder_id,  \* main: parent_folder_id
    upload_args,       \* upload: the dict given to CreateFile
    calls,             \* every call made so far, in order
    stdout,            \* every line printed so far, in order
    outcome,           \* how the process ended
    flow_params,       \* Bootstrapper: gauth.flow.params
    consent_params,    \* Bootstrapper: flow.params as they were when consent was launched
    saved,             \* Bootstrapper: credential files written, in order
    cwd                \* Bootstrapper: os.getcwd()

vars == <<program, args, pc, gauth, file_list, list_error, parent_folder_id,
          upload_args, calls, stdout, outcome, flow_params, consent_params, saved, cwd>>

----------------------------------------------------------------------------
(* Bounds *)

MaxList == 3

----------------------------------------------------------------------------
(* Values *)

\* Python's None for a string argument
None == "<None>"
\* a key that is not in a dict
Absent == "<absent>"

\* Python truthiness of an optional string: None and '' are falsy
Truthy(x) == x # None /\ x # ""

CredentialArgs == {None, "", "credentials.json"}
KeyArgs        == {None, "", "key.json"}
FileArgs       == {None, "report.pdf"}
NameArgs       == {None, "", "renamed.pdf"}
DirNameArgs    == {None, "", "Reports"}
DirIdArgs      == {None, "", "D1"}

Titles == {"Reports", "Other"}
Ids    == {"F123", "F456"}
Entries == [title : Titles, id : Ids]

RECURSIVE SeqsUpTo(_, _)
SeqsUpTo(S, n) ==
    IF n = 0 THEN {<<>>}
    ELSE LET shorter == SeqsUpTo(S, n - 1)
         IN  shorter \cup {Append(s, e) : s \in {t \in shorter : Len(t) = n - 1}, e \in S}

Listings == SeqsUpTo(Entries, MaxList)

\* Errors: what was raised, and for an HttpError the form of err.content and the
\* provider's message in it
NoError == [type |-> "none", form |-> "n/a", message |-> ""]
ScriptError(msg) == [type |-> "Exception", form |-> "n/a", message |-> msg]
LibraryError(op) == [type |-> "LibraryError", form |-> "n/a", message |-> op]

NotFoundMessage == "File not found: "
ProviderMessages == {NotFoundMessage, "Rate Limit Exceeded"}
\* err.content: bytes; a str holding a Python literal {'error': {'message': ...}};
\* a str that is no Python literal; a str literal without the keys
ContentForms == {"bytes", "str_literal", "str_not_literal", "str_no_key"}
HttpErrors == [type : {"HttpError"}, form : ContentForms, message : ProviderMessages]
ListErrors == HttpErrors \cup {LibraryError("ListFile")}

Running == [kind |-> "running", status |-> -1, error |-> NoError]

Call(op, arg) == [op |-> op, arg |-> arg]

----------------------------------------------------------------------------
(* How a process ends *)

\* an uncaught exception: traceback, exit status 1
Raise(err) ==
    /\ pc' = "terminated"
    /\ outcome' = [kind |-> "uncaught", status |-> 1, error |-> err]

\* exit(n) / argparse's parser.error
Exit(n) ==
    /\ pc' = "terminated"
    /\ outcome' = [kind |-> "sys_exit", status |-> n, error |-> NoError]

\* main returns: exit status 0
Return ==
    /\ pc' = "terminated"
    /\ outcome' = [kind |-> "returned", status |-> 0, error |-> NoError]

----------------------------------------------------------------------------
(* gdrive_upload.py *)

UploaderArgs ==
    [credentials : CredentialArgs, service_account_key : KeyArgs, file : FileArgs,
     name : NameArgs, directory_name : DirNameArgs, directory_id : DirIdArgs]

InitUploader ==
    /\ program = "gdrive_upload"
    /\ args \in UploaderArgs
    /\ pc = "parse_args"

\* parse_args, line 55: neither way to authorize was given
NoAuthGivenNoneOnly(a) == a.credentials = None /\ a.service_account_key = None
NoAuthGiven(a) == ~Truthy(a.credentials) /\ ~Truthy(a.service_account_key)

\* parse_args: --file is required (argparse exits with status 2); then line 55
ParseArgs ==
    /\ pc = "parse_args"
    /\ IF args.file = None
       THEN Exit(2)
       ELSE IF NoAuthGiven(args)
            THEN Raise(ScriptError("Specify at least one way to authorize"))
            ELSE pc' = "main_auth" /\ UNCHANGED outcome
    /\ UNCHANGED <<program, args, gauth, file_list, list_error, parent_folder_id,
                   upload_args, calls, stdout, flow_params, consent_params, saved, cwd>>

\* main, lines 139-145: if / elif / else
MainAuth ==
    /\ pc = "main_auth"
    /\ IF Truthy(args.credentials)
       THEN /\ pc' = "awc_load"
            /\ calls' = Append(calls, Call("auth_with_credentials", args.credentials))
            /\ UNCHANGED outcome
       ELSE IF Truthy(args.service_account_key)
            THEN /\ pc' = "sak_keyfile"
                 /\ calls' = Append(calls, Call("auth_with_service_account_key",
                                                args.service_account_key))
                 /\ UNCHANGED outcome
            ELSE /\ Raise(ScriptError("Actually we cannot get here"))
                 /\ UNCHANGED calls
    /\ UNCHANGED <<program, args, gauth, file_list, list_error, parent_folder_id,
                   upload_args, stdout, flow_params, consent_params, saved, cwd>>

\* what LoadCredentialsFile leaves in gauth.credentials: nothing, a bundle whose
\* access token is expired, a bundle whose access token is not
LoadedCredentials == {"None", "expired", "valid"}

\* auth_with_credentials, lines 63-65
AwcLoadCredentialsFile ==
    /\ pc = "awc_load"
    /\ calls' = Append(calls, Call("LoadCredentialsFile", args.credentials))
    /\ \/ \E c \in LoadedCredentials :
             /\ gauth' = [gauth EXCEPT !.credentials = c, !.loaded = c]
             /\ pc' = "awc_branch"
             /\ UNCHANGED outcome
       \/ /\ Raise(LibraryError("LoadCredentialsFile"))
          /\ UNCHANGED gauth
    /\ UNCHANGED <<program, args, file_list, list_error, parent_folder_id,
                   upload_args, stdout, flow_params, consent_params, saved, cwd>>

\* auth_with_credentials, lines 67-74: which library call the bundle leads to
AwcChoiceAlwaysRefresh(g) ==
    IF g.credentials = "None" THEN "raise" ELSE "Refresh"
AwcChoice(g) ==
    IF g.credentials = "None" THEN "raise"
    ELSE IF g.credentials = "expired" THEN "Refresh"
    ELSE "Authorize"

\* auth_with_credentials, lines 67-74
AwcBranch ==
    /\ pc = "awc_branch"
    /\ LET choice == AwcChoice(gauth)
       IN  IF choice = "raise"
           THEN /\ Raise(ScriptError("Error while loading"))
                /\ UNCHANGED <<gauth, calls, stdout>>
           ELSE /\ calls' = Append(calls, Call(choice, ""))
                /\ stdout' = Append(stdout,
                       IF choice = "Refresh" THEN <<"Token expired. Refreshing token">>
                       ELSE <<"Authorizing using current token">>)
                /\ \/ /\ gauth' = [gauth EXCEPT !.credentials = "valid",
                                                !.authorized = TRUE, !.via = choice]
                      /\ pc' = "awc_return"
                      /\ UNCHANGED outcome
                   \/ /\ Raise(LibraryError(choice))
                      /\ UNCHANGED gauth
    /\ UNCHANGED <<program, args, file_list, list_error, parent_folder_id,
                   upload_args, flow_params, consent_params, saved, cwd>>

\* main, lines 140-143: where control goes when auth_with_credentials returns
AfterCredentialsAuthFallsThrough(a) ==
    IF Truthy(a.service_account_key) THEN "sak_keyfile" ELSE "main_drive"
AfterCredentialsAuth(a) == "main_drive"

\* auth_with_credentials, lines 75-77
AwcReturn ==
    /\ pc = "awc_return"
    /\ stdout' = Append(stdout, <<"Successfully authorized">>)
    /\ pc' = AfterCredentialsAuth(args)
    /\ calls' = IF pc' = "sak_keyfile"
                THEN Append(calls, Call("auth_with_service_account_key",
                                        args.service_account_key))
                ELSE calls
    /\ UNCHANGED <<program, args, gauth, file_list, list_error, parent_folder_id,
                   upload_args, outcome, flow_params, consent_params, saved, cwd>>

\* auth_with_service_account_key, lines 85-87
SakFromKeyfile ==
    /\ pc = "sak_keyfile"
    /\ calls' = Append(calls, Call("from_json_keyfile_name", args.service_account_key))
    /\ \/ /\ gauth' = [gauth EXCEPT !.credentials = "service_account"]
          /\ pc' = "sak_authorize"
          /\ UNCHANGED outcome
       \/ /\ Raise(LibraryError("from_json_keyfile_name"))
          /\ UNCHANGED gauth
    /\ UNCHANGED <<program, args, file_list, list_error, parent_folder_id,
                   upload_args, stdout, flow_params, consent_params, saved, cwd>>

\* auth_with_service_account_key, lines 88-90
SakAuthorize ==
    /\ pc = "sak_authorize"
    /\ calls' = Append(calls, Call("Authorize", ""))
    /\ \/ /\ gauth' = [gauth EXCEPT !.authorized = TRUE, !.via = "Authorize"]
          /\ pc' = "main_drive"
          /\ UNCHANGED outcome
       \/ /\ Raise(LibraryError("Authorize"))
          /\ UNCHANGED gauth
    /\ UNCHANGED <<program, args, file_list, list_error, parent_folder_id,
                   upload_args, stdout, flow_params, consent_params, saved, cwd>>

\* main, lines 150-152: which of the three branches
FolderBranchNameFirst(a) ==
    IF Truthy(a.directory_name) THEN "by_name"
    ELSE IF Truthy(a.directory_id) THEN "by_id"
    ELSE "no_parent"
FolderBranch(a) ==
    IF Truthy(a.directory_id) THEN "by_id"
    ELSE IF Truthy(a.directory_name) THEN "by_name"
    ELSE "no_parent"

\* main, lines 148-153
MainDrive ==
    /\ pc = "main_drive"
    /\ LET branch == FolderBranch(args)
       IN  IF branch = "by_id"
           THEN /\ parent_folder_id' = args.directory_id
                /\ pc' = "upload_create"
                /\ UNCHANGED calls
           ELSE IF branch = "by_name"
                THEN /\ pc' = "gf_list"
                     /\ calls' = Append(calls, Call("get_folder_id_by_name", "root"))
                     /\ UNCHANGED parent_folder_id
                ELSE /\ pc' = "upload_create"
                     /\ UNCHANGED <<parent_folder_id, calls>>
    /\ UNCHANGED <<program, args, gauth, file_list, list_error, upload_args,
                   stdout, outcome, flow_params, consent_params, saved, cwd>>

\* ast.literal_eval(err.content)['error']['message'], line 103: the message, or
\* the exception the expression raises
LiteralEvalMessage(err) ==
    CASE err.form = "str_literal"     -> [ok |-> TRUE,  val |-> err.message]
      [] err.form = "bytes"           -> [ok |-> FALSE, val |-> "ValueError"]
      [] err.form = "str_not_literal" -> [ok |-> FALSE, val |-> "SyntaxError"]
      [] err.form = "str_no_key"      -> [ok |-> FALSE, val |-> "KeyError"]

\* get_folder_id_by_name, lines 97-109
GetList ==
    /\ pc = "gf_list"
    /\ calls' = Append(calls, Call("ListFile", "root"))
    /\ \/ \E l \in Listings :
             /\ file_list' = l
             /\ pc' = "gf_find"
             /\ UNCHANGED <<list_error, stdout, outcome>>
       \/ \E err \in ListErrors :
             /\ list_error' = err
             /\ UNCHANGED file_list
             /\ IF err.type # "HttpError"
                THEN Raise(err) /\ UNCHANGED stdout
                ELSE LET message == LiteralEvalMessage(err)
                     IN  IF ~message.ok
                         THEN Raise([type |-> message.val, form |-> "n/a",
                                     message |-> "line 103"])
                              /\ UNCHANGED stdout
                         ELSE IF message.val = NotFoundMessage
                              THEN /\ stdout' = Append(stdout,
                                          <<message.val, args.directory_name>>)
                                   /\ Exit(1)
                              ELSE Raise(err) /\ UNCHANGED stdout
    /\ UNCHANGED <<program, args, gauth, parent_folder_id, upload_args,
                   flow_params, consent_params, saved, cwd>>

\* get_folder_id_by_name, lines 112-115: the index of the entry the loop returns
\* at, from i on; 0 when the loop ends without returning
RECURSIVE LastMatchIndex(_, _, _)
LastMatchIndex(l, folder_name, i) ==
    IF i < 1 THEN 0
    ELSE IF l[i].title = folder_name THEN i
    ELSE LastMatchIndex(l, folder_name, i - 1)

RECURSIVE LoopFrom(_, _, _)
LoopFrom(l, folder_name, i) ==
    IF i > Len(l) THEN 0
    ELSE IF l[i].title = folder_name THEN i
    ELSE LoopFrom(l, folder_name, i + 1)

FolderIdLastMatch(l, folder_name) ==
    LET i == LastMatchIndex(l, folder_name, Len(l))
    IN  IF i = 0 THEN None ELSE l[i].id
\* get_folder_id_by_name, lines 112-115: the value returned (None when the loop ends)
FolderId(l, folder_name) ==
    LET i == LoopFrom(l, folder_name, 1)
    IN  IF i = 0 THEN None ELSE l[i].id

\* get_folder_id_by_name, lines 111-115, and the assignment of line 153
FindFolder ==
    /\ pc = "gf_find"
    /\ LET i == LoopFrom(file_list, args.directory_name, 1)
       IN  stdout' = IF i = 0 THEN stdout
                     ELSE Append(stdout, <<"title, id", file_list[i].title, file_list[i].id>>)
    /\ parent_folder_id' = FolderId(file_list, args.directory_name)
    /\ pc' = "main_check"
    /\ UNCHANGED <<program, args, gauth, file_list, list_error, upload_args,
                   calls, outcome, flow_params, consent_params, saved, cwd>>

\* main, line 154: the folder was not resolved
UnresolvedNever(id) == FALSE
Unresolved(id) == ~Truthy(id)

\* main, lines 154-155
MainCheckParent ==
    /\ pc = "main_check"
    /\ IF Unresolved(parent_folder_id)
       THEN Raise(ScriptError("Cannot find parent directory"))
       ELSE pc' = "upload_create" /\ UNCHANGED outcome
    /\ UNCHANGED <<program, args, gauth, file_list, list_error, parent_folder_id,
                   upload_args, calls, stdout, flow_params, consent_params, saved, cwd>>

\* upload, lines 121-125: the dict given to CreateFile
UploadArgsNoParent(parent, uploaded_file_name) ==
    [title   |-> IF Truthy(uploaded_file_name) THEN uploaded_file_name ELSE Absent,
     parents |-> Absent]
UploadArgs(parent, uploaded_file_name) ==
    [title   |-> IF Truthy(uploaded_file_name) THEN uploaded_file_name ELSE Absent,
     parents |-> IF Truthy(parent) THEN parent ELSE Absent]

\* upload, lines 121-127
UploadCreateFile ==
    /\ pc = "upload_create"
    /\ upload_args' = UploadArgs(parent_folder_id, args.name)
    /\ calls' = Append(calls, Call("CreateFile", upload_args'.parents))
    /\ pc' = "upload_content"
    /\ UNCHANGED <<program, args, gauth, file_list, list_error, parent_folder_id,
                   stdout, outcome, flow_params, consent_params, saved, cwd>>

\* upload, line 128
UploadSetContentFile ==
    /\ pc = "upload_content"
    /\ calls' = Append(calls, Call("SetContentFile", args.file))
    /\ \/ pc' = "upload_upload" /\ UNCHANGED outcome
       \/ Raise(LibraryError("SetContentFile"))
    /\ UNCHANGED <<program, args, gauth, file_list, list_error, parent_folder_id,
                   upload_args, stdout, flow_params, consent_params, saved, cwd>>

\* upload, lines 129-130, and main's return
UploadUpload ==
    /\ pc = "upload_upload"
    /\ stdout' = Append(stdout, <<"Uploading file">>)
    /\ calls' = Append(calls, Call("Upload", "supportsTeamDrives"))
    /\ \/ Return
       \/ Raise(LibraryError("Upload"))
    /\ UNCHANGED <<program, args, gauth, file_list, list_error, parent_folder_id,
                   upload_args, flow_params, consent_params, saved, cwd>>

----------------------------------------------------------------------------
(* gdrive_get_credentials.py *)

\* A path is the sequence of its components; '' is the empty sequence
NonePath == <<None>>
OutputFileArgs == {NonePath, <<>>, <<"out.json">>, <<"/tmp", "creds.json">>}
ClientSecretArgs == {None, "client_secret.json"}
WorkingDirs == {"/home/user", "/srv"}

BootstrapperArgs == [client_secret : ClientSecretArgs, output_file : OutputFileArgs]

\* the parameters a flow has before the script changes them
DefaultFlowParams == [access_type : {"online", "offline"}, approval_prompt : {"auto", "force"}]
UnsetParams == [access_type |-> "unset", approval_prompt |-> "unset"]

InitBootstrapper ==
    /\ program = "gdrive_get_credentials"
    /\ args \in BootstrapperArgs
    /\ pc = "boot_parse_args"

\* parse_args, lines 21-29: --client-secret is required
BootParseArgs ==
    /\ pc = "boot_parse_args"
    /\ IF args.client_secret = None
       THEN Exit(2)
       ELSE pc' = "boot_get_flow" /\ UNCHANGED outcome
    /\ UNCHANGED <<program, args, gauth, file_list, list_error, parent_folder_id,
                   upload_args, calls, stdout, flow_params, consent_params, saved, cwd>>

\* get_credentials, lines 34-36
BootGetFlow ==
    /\ pc = "boot_get_flow"
    /\ calls' = Append(calls, Call("GetFlow", ""))
    /\ \/ \E p \in DefaultFlowParams :
             /\ flow_params' = p
             /\ pc' = "boot_access_type"
             /\ UNCHANGED outcome
       \/ /\ Raise(LibraryError("GetFlow"))
          /\ UNCHANGED flow_params
    /\ UNCHANGED <<program, args, gauth, file_list, list_error, parent_folder_id,
                   upload_args, stdout, consent_params, saved, cwd>>

\* get_credentials, line 37
BootSetAccessType ==
    /\ pc = "boot_access_type"
    /\ flow_params' = [flow_params EXCEPT !.access_type = "offline"]
    /\ pc' = "boot_approval_prompt"
    /\ UNCHANGED <<program, args, gauth, file_list, list_error, parent_folder_id,
                   upload_args, calls, stdout, outcome, consent_params, saved, cwd>>

\* get_credentials, line 38
BootSetApprovalPrompt ==
    /\ pc = "boot_approval_prompt"
    /\ flow_params' = [flow_params EXCEPT !.approval_prompt = "force"]
    /\ pc' = "boot_load_config"
    /\ UNCHANGED <<program, args, gauth, file_list, list_error, parent_folder_id,
                   upload_args, calls, stdout, outcome, consent_params, saved, cwd>>

\* get_credentials, line 40
BootLoadClientConfigFile ==
    /\ pc = "boot_load_config"
    /\ calls' = Append(calls, Call("LoadClientConfigFile", args.client_secret))
    /\ \/ pc' = "boot_consent" /\ UNCHANGED outcome
       \/ Raise(LibraryError("LoadClientConfigFile"))
    /\ UNCHANGED <<program, args, gauth, file_list, list_error, parent_folder_id,
                   upload_args, stdout, flow_params, consent_params, saved, cwd>>

\* get_credentials, line 41: blocks until the provider redirects back or the user aborts
BootLocalWebserverAuth ==
    /\ pc = "boot_consent"
    /\ calls' = Append(calls, Call("LocalWebserverAuth", ""))
    /\ consent_params' = flow_params
    /\ \/ /\ gauth' = [gauth EXCEPT !.credentials = "valid", !.authorized = TRUE,
                                    !.via = "LocalWebserverAuth"]
          /\ pc' = "boot_save"
          /\ UNCHANGED outcome
       \/ /\ Raise(LibraryError("LocalWebserverAuth"))
          /\ UNCHANGED gauth
    /\ UNCHANGED <<program, args, file_list, list_error, parent_folder_id,
                   upload_args, stdout, flow_params, saved>>
    /\ UNCHANGED cwd

\* get_credentials, lines 43-44: the path the bundle is saved to
OutputFileNoneOnly(output_file, dir) ==
    IF output_file = NonePath THEN <<dir, "credentials.json">> ELSE output_file
OutputFile(output_file, dir) ==
    IF output_file = NonePath \/ output_file = <<>>
    THEN <<dir, "credentials.json">>
    ELSE output_file

\* get_credentials, lines 43-45
BootSaveCredentialsFile ==
    /\ pc = "boot_save"
    /\ LET output_file == OutputFile(args.output_file, cwd)
       IN  /\ calls' = Append(calls, Call("SaveCredentialsFile", output_file))
           /\ \/ /\ saved' = Append(saved, [path |-> output_file,
                                            credentials |-> gauth.credentials])
                 /\ pc' = "boot_print"
                 /\ UNCHANGED outcome
              \/ /\ Raise(LibraryError("SaveCredentialsFile"))
                 /\ UNCHANGED saved
    /\ UNCHANGED <<program, args, gauth, file_list, list_error, parent_folder_id,
                   upload_args, stdout, flow_params, consent_params, cwd>>

\* get_credentials, line 47, and the script's end
BootPrint ==
    /\ pc = "boot_print"
    /\ stdout' = Append(stdout, <<"Credentials file saved to ">>
                                \o OutputFile(args.output_file, cwd))
    /\ Return
    /\ UNCHANGED <<program, args, gauth, file_list, list_error, parent_folder_id,
                   upload_args, calls, flow_params, consent_params, saved, cwd>>

----------------------------------------------------------------------------

Init ==
    /\ InitUploader \/ InitBootstrapper
    /\ cwd \in WorkingDirs
    /\ gauth = [credentials |-> "unset", loaded |-> "unset", authorized |-> FALSE,
                via |-> "none"]
    /\ file_list = <<>>
    /\ list_error = NoError
    /\ parent_folder_id = ""
    /\ upload_args = [title |-> Absent, parents |-> Absent]
    /\ calls = <<>>
    /\ stdout = <<>>
    /\ outcome = Running
    /\ flow_params = UnsetParams
    /\ consent_params = UnsetParams
    /\ saved = <<>>

Next ==
    \/ ParseArgs
    \/ MainAuth
    \/ AwcLoadCredentialsFile
    \/ AwcBranch
    \/ AwcReturn
    \/ SakFromKeyfile
    \/ SakAuthorize
    \/ MainDrive
    \/ GetList
    \/ FindFolder
    \/ MainCheckParent
    \/ UploadCreateFile
    \/ UploadSetContentFile
    \/ UploadUpload
    \/ BootParseArgs
    \/ BootGetFlow
    \/ BootSetAccessType
    \/ BootSetApprovalPrompt
    \/ BootLoadClientConfigFile
    \/ BootLocalWebserverAuth
    \/ BootSaveCredentialsFile
    \/ BootPrint

Spec == Init /\ [][Next]_vars

----------------------------------------------------------------------------
(* Properties *)

Uploader == program = "gdrive_upload"
Bootstrapper == program = "gdrive_get_credentials"

\* the positions in `calls` of the calls of the operations in ops
CallsOf(ops) == {i \in DOMAIN calls : calls[i].op \in ops}
Count(ops) == Cardinality(CallsOf(ops))
Called(op) == CallsOf({op}) # {}

\* a line has been printed
Printed(line) == \E i \in DOMAIN stdout : stdout[i] = line

\* the process ended in failure
Failed == pc = "terminated" /\ outcome.kind \in {"uncaught", "sys_exit"} /\ outcome.status # 0

AuthFunctions == {"auth_with_credentials", "auth_with_service_account_key"}
AuthLibraryCalls == {"LoadCredentialsFile", "Refresh", "Authorize", "from_json_keyfile_name"}
FolderCalls == {"get_folder_id_by_name", "ListFile"}
UploadCalls == {"CreateFile", "SetContentFile", "Upload"}

\* the listing call has returned a listing
ListingSucceeded == Uploader /\ Called("ListFile") /\ list_error = NoError

\* the positions of the listing's entries titled as --directory-name asks
Matches == {i \in DOMAIN file_list : file_list[i].title = args.directory_name}

\* C1: when neither --credentials nor --service-account-key is supplied (absent or
\* empty), the Uploader never gets past parse_args, ends in failure (the exception
\* of line 56 when --file was given), and makes no call at all: no authorization,
\* refresh, listing or upload.
C1_NoAuthSourceFailsBeforeAnyCall ==
    (Uploader /\ ~Truthy(args.credentials) /\ ~Truthy(args.service_account_key)) =>
        /\ pc \in {"parse_args", "terminated"}
        /\ calls = <<>>
        /\ pc = "terminated" => Failed
        /\ (pc = "terminated" /\ args.file # None) =>
               /\ outcome.kind = "uncaught"
               /\ outcome.error = ScriptError("Specify at least one way to authorize")

C1_Witness ==
    /\ Uploader
    /\ args.credentials = ""
    /\ args.service_account_key = None
    /\ args.file = "report.pdf"
    /\ args.directory_id = "D1"
    /\ pc = "terminated"
    /\ outcome.kind = "uncaught"

\* C2: in every Uploader invocation at most one of auth_with_credentials and
\* auth_with_service_account_key is ever called; no call is made before parse_args
\* has found an authorization source; and a listing or upload call is made only
\* after exactly one of the two has been called and has authorized the session.
C2_ExactlyOneAuthMethod ==
    Uploader =>
        /\ Count(AuthFunctions) <= 1
        /\ calls # <<>> => (Truthy(args.credentials) \/ Truthy(args.service_account_key))
        /\ calls # <<>> => calls[1].op \in AuthFunctions
        /\ CallsOf(FolderCalls \cup UploadCalls) # {} =>
               /\ Count(AuthFunctions) = 1
               /\ gauth.authorized
               /\ Called("auth_with_credentials") <=> Truthy(args.credentials)

C2_Witness ==
    /\ Uploader
    /\ Truthy(args.credentials)
    /\ Truthy(args.service_account_key)
    /\ pc = "terminated"
    /\ outcome.kind = "returned"
    /\ Called("Upload")

\* C3: once auth_with_credentials has loaded the bundle and branched on it: with no
\* credentials loaded it raised and made neither a Refresh nor an Authorize call;
\* with an expired token it made exactly one Refresh call and no Authorize call;
\* with an unexpired token exactly one Authorize call and no Refresh call. It
\* returns a session only in the last two cases.
C3_CredentialsBranch ==
    (Uploader /\ Called("auth_with_credentials")) =>
        /\ pc \in {"awc_load", "awc_branch"} =>
               Count({"Refresh"}) = 0 /\ Count({"Authorize"}) = 0
        /\ (gauth.loaded = "None" /\ pc # "awc_branch") =>
               /\ Count({"Refresh"}) = 0 /\ Count({"Authorize"}) = 0
               /\ pc = "terminated" /\ outcome.kind = "uncaught"
               /\ outcome.error = ScriptError("Error while loading")
        /\ (gauth.loaded = "expired" /\ pc # "awc_branch") =>
               Count({"Refresh"}) = 1 /\ Count({"Authorize"}) = 0
        /\ (gauth.loaded = "valid" /\ pc # "awc_branch") =>
               Count({"Authorize"}) = 1 /\ Count({"Refresh"}) = 0
        /\ Printed(<<"Successfully authorized">>) =>
               gauth.loaded \in {"expired", "valid"} /\ gauth.authorized

C3_Witness ==
    /\ Uploader
    /\ gauth.loaded = "expired"
    /\ Count({"Refresh"}) = 1
    /\ pc = "terminated"
    /\ outcome.kind = "returned"

\* C4: when --directory-id is given (with or without --directory-name) there is no
\* listing call, get_folder_id_by_name is not called, at most one file is created
\* (exactly one when the upload completes) and it is created with the given
\* identifier as parent; get_folder_id_by_name is called only when the identifier
\* is absent.
C4_DirectoryIdTakesPrecedence ==
    Uploader =>
        /\ Truthy(args.directory_id) =>
               /\ CallsOf(FolderCalls) = {}
               /\ Count({"CreateFile"}) <= 1
               /\ \A i \in CallsOf({"CreateFile"}) : calls[i].arg = args.directory_id
               /\ Called("Upload") => Count({"CreateFile"}) = 1
        /\ CallsOf(FolderCalls) # {} => ~Truthy(args.directory_id)

C4_Witness ==
    /\ Uploader
    /\ args.directory_id = "D1"
    /\ args.directory_name = "Reports"
    /\ Called("CreateFile")
    /\ pc = "terminated"
    /\ outcome.kind = "returned"

\* C5: when --directory-name is given without --directory-id and the listing
\* succeeds with no entry titled as the name, the Uploader makes no CreateFile,
\* SetContentFile or Upload call and ends with the uncaught exception of line 155,
\* a failure status.
C5_UnresolvedFolderAbortsUpload ==
    (ListingSucceeded /\ Matches = {}) =>
        /\ CallsOf(UploadCalls) = {}
        /\ pc \in {"gf_find", "main_check", "terminated"}
        /\ pc = "terminated" =>
               /\ Failed
               /\ outcome.kind = "uncaught"
               /\ outcome.error = ScriptError("Cannot find parent directory")

C5_Witness ==
    /\ ListingSucceeded
    /\ Len(file_list) >= 2
    /\ Matches = {}
    /\ pc = "terminated"
    /\ Failed

\* the remote operations made so far, in order
RemoteOps == SelectSeq(calls, LAMBDA c : c.op \in {"ListFile", "CreateFile", "Upload"})

\* C6: when --directory-name is given without --directory-id and the listing holds
\* a matching entry, the remote operations are, in this order and none repeated,
\* one listing under root, one file creation whose parent is the identifier of the
\* first matching entry, and the upload of that file.
C6_ListThenCreateUnderResolvedFolder ==
    (ListingSucceeded /\ Matches # {}) =>
        LET first == CHOOSE i \in Matches : \A j \in Matches : i <= j
            expected == << Call("ListFile", "root"),
                           Call("CreateFile", file_list[first].id),
                           Call("Upload", "supportsTeamDrives") >>
        IN  /\ Len(RemoteOps) <= Len(expected)
            /\ \A k \in DOMAIN RemoteOps : RemoteOps[k] = expected[k]
            /\ (pc = "terminated" /\ outcome.kind = "returned") => RemoteOps = expected
            /\ Called("CreateFile") => upload_args.parents = file_list[first].id

C6_Witness ==
    /\ ListingSucceeded
    /\ Len(file_list) = 3
    /\ Matches = {2, 3}
    /\ file_list[2].id # file_list[3].id
    /\ pc = "terminated"
    /\ outcome.kind = "returned"
    /\ Len(RemoteOps) = 3

\* C7 (as claimed): when the listing call fails with an HttpError, the process
\* ends at once; if the provider's message is the parent-not-found message, the
\* message is printed and the process exits with status 1, and otherwise the same
\* error is re-raised unchanged. No identifier is returned and no upload call made.
C7_ListingErrorHandledAsClaimed ==
    (Uploader /\ list_error.type = "HttpError") =>
        /\ pc = "terminated"
        /\ CallsOf(UploadCalls) = {}
        /\ IF list_error.message = NotFoundMessage
           THEN /\ outcome.kind = "sys_exit"
                /\ outcome.status = 1
                /\ Printed(<<NotFoundMessage, args.directory_name>>)
           ELSE /\ outcome.kind = "uncaught"
                /\ outcome.error = list_error

\* C8: once get_folder_id_by_name has returned from a successful listing, its
\* result is the identifier of the earliest entry titled exactly as the requested
\* name, and it is None if and only if no entry has that title.
C8_FirstMatchOrNone ==
    (Uploader /\ pc = "main_check") =>
        /\ parent_folder_id = None <=> Matches = {}
        /\ Matches # {} =>
               \E i \in Matches :
                   /\ \A j \in 1..(i - 1) : file_list[j].title # args.directory_name
                   /\ parent_folder_id = file_list[i].id

C8_Witness ==
    /\ Uploader
    /\ pc = "main_check"
    /\ Len(file_list) = 3
    /\ Matches = {2, 3}
    /\ file_list[1].id = file_list[3].id
    /\ file_list[2].id # file_list[3].id
    /\ parent_folder_id = file_list[2].id

\* the save message of line 47 has been printed
SaveMessagePrinted ==
    \E i \in DOMAIN stdout : stdout[i][1] = "Credentials file saved to "

\* C9: in the Bootstrapper the consent flow is launched only with access_type
\* offline and approval_prompt force already set; a credential file is written only
\* after the consent flow has succeeded, once, to the supplied output path, or to
\* credentials.json in the working directory when the path is absent or empty; the
\* save message is printed only after the write and names that path; and when
\* LoadClientConfigFile or the consent flow fails, nothing is written or printed.
C9_BootstrapperOrder ==
    Bootstrapper =>
        LET target == IF args.output_file \in {NonePath, <<>>}
                      THEN <<cwd, "credentials.json">>
                      ELSE args.output_file
        IN  /\ Called("LocalWebserverAuth") =>
                   consent_params = [access_type |-> "offline", approval_prompt |-> "force"]
            /\ Called("SaveCredentialsFile") =>
                   /\ gauth.authorized
                   /\ Count({"LocalWebserverAuth"}) = 1
                   /\ Count({"SaveCredentialsFile"}) = 1
                   /\ \A i \in CallsOf({"SaveCredentialsFile"}) :
                          /\ calls[i].arg = target
                          /\ \E j \in CallsOf({"LocalWebserverAuth"}) : j < i
            /\ saved # <<>> => saved = << [path |-> target, credentials |-> "valid"] >>
            /\ SaveMessagePrinted =>
                   /\ saved # <<>>
                   /\ stdout = << <<"Credentials file saved to ">> \o target >>
            /\ (pc = "terminated" /\ outcome.kind = "returned") => SaveMessagePrinted
            /\ (pc = "terminated" /\ outcome.kind = "uncaught"
                  /\ outcome.error.message \in {"GetFlow", "LoadClientConfigFile",
                                                "LocalWebserverAuth"}) =>
                   saved = <<>> /\ stdout = <<>>

C9_Witness ==
    /\ Bootstrapper
    /\ args.output_file = <<>>
    /\ pc = "terminated"
    /\ outcome.kind = "returned"
    /\ saved # <<>>
    /\ saved[1].path = <<cwd, "credentials.json">>

====
